---- MODULE Spec2Model ----
(***************************************************************************)
(* Model of the in-memory ERC20 ledger of src/twen.rs: the ERC20Token      *)
(* struct, its constructor and its three mutating operations transfer,     *)
(* approve and transfer_from, with the two read accessors they use.        *)
(*                                                                         *)
(* A HashMap is a function whose DOMAIN is the set of keys present, so an  *)
(* absent key and a key mapped to 0 are different ledger states, as in the *)
(* code.  u128 is scaled down to the range 0..MaxU128; an addition or      *)
(* subtraction leaving that range either panics (debug build) or wraps     *)
(* (release build).                                                        *)
(***************************************************************************)
EXTENDS Integers, FiniteSets, Sequences, TLC

\* ---------------------------------------------------------------- bounds
\* largest value of the (scaled) unsigned integer type of amounts
MaxU128 == 3
\* largest amount a caller passes to an operation
MaxAmount == 2

Amounts == {n \in 0..MaxAmount : n <= MaxU128}
InitialSupplies == 0..MaxU128

\* account identifiers callers use; "" is the empty string
\* the accounts that hold, send and receive tokens
Holders == {"", "alice", "bob"}
\* the accounts approved and acting as spender: bob is also a recipient,
\* charlie a pure intermediary
Spenders == {"", "bob", "charlie"}
\* the accounts that construct the ledger and approve spenders
Owners == {"", "alice"}
\* the accounts of main
MainAddresses == {"alice", "bob", "charlie", "dave"}
Addresses == Holders \cup Spenders \cup MainAddresses

NoArg == "-"

\* ------------------------------------------------------------ main's run
\* largest value of the (scaled) unsigned integer type while main runs:
\* wide enough for the amounts main passes
MainU128 == 1073741824
\* the amounts main passes to transfer, approve and transfer_from
ScenarioTransfer == 100000
ScenarioApprove == 50000
ScenarioTransferFrom == 30000
\* the supplies and amounts main's run is explored with: the amounts main
\* passes and the supply of 1_000_000 of the end-to-end scenario among them
\* (main itself constructs with 10^24)
MainSupplies == {0, ScenarioTransferFrom, ScenarioTransfer, 1000000}
MainAmounts == {0, ScenarioTransferFrom, ScenarioApprove, ScenarioTransfer,
                1000000}

\* name .. allowances: the fields of ERC20Token
\* initial_supply, new_owner: the arguments new was called with
\* call, pre: the last call with its result, and the ledger before it
\* pc: the caller, "calls" for arbitrary calls, else main's position
\* hist: per account and pair, what the successful calls so far have done
\* trace: the calls main has made, with their results
VARIABLES name, symbol, decimals, total_supply, balances, allowances,
          initial_supply, new_owner, call, pre, pc, hist, trace

vars == <<name, symbol, decimals, total_supply, balances, allowances,
          initial_supply, new_owner, call, pre, pc, hist, trace>>

\* the (scaled) range of u128 in the current run
U128Max == IF pc = "calls" THEN MaxU128 ELSE MainU128
Modulus == U128Max + 1

\* ------------------------------------------------------------ TokenError
InsufficientBalance == "InsufficientBalance"
InsufficientAllowance == "InsufficientAllowance"
InvalidAddress == "InvalidAddress"
TokenError == {InsufficientBalance, InsufficientAllowance, InvalidAddress}
Ok == "Ok"
Panic == "Panic"

\* --------------------------------------------------------------- HashMap
EmptyMap == [k \in {} |-> 0]

insert(m, k, v) == [x \in (DOMAIN m) \cup {k} |-> IF x = k THEN v ELSE m[x]]

is_empty(s) == s = ""

\* ------------------------------------------------------- u128 arithmetic
\* each operator yields the set of outcomes a build can produce
u128_add(a, b) ==
    IF a + b <= U128Max
    THEN {[panic |-> FALSE, val |-> a + b]}
    ELSE {[panic |-> TRUE, val |-> 0],
          [panic |-> FALSE, val |-> (a + b) % Modulus]}

u128_sub(a, b) ==
    IF a - b >= 0
    THEN {[panic |-> FALSE, val |-> a - b]}
    ELSE {[panic |-> TRUE, val |-> 0],
          [panic |-> FALSE, val |-> (a - b + Modulus) % Modulus]}

\* ------------------------------------------------------------- accessors
\* variant: an absent address has balance 1
balance_of_default_one(bals, address) ==
    IF address \in DOMAIN bals THEN bals[address] ELSE 1

balance_of(bals, address) ==
    IF address \in DOMAIN bals THEN bals[address] ELSE 0

allowance(alws, owner, spender) ==
    IF owner \in DOMAIN alws
    THEN IF spender \in DOMAIN alws[owner] THEN alws[owner][spender] ELSE 0
    ELSE 0

\* the ledger part of self, as the operations read and write it
Self == [balances |-> balances, allowances |-> allowances]

Outcome(result, bals, alws) ==
    [result |-> result, balances |-> bals, allowances |-> alws]

\* ------------------------------------------------------------ operations
\* variant: the recipient's new balance is computed but never stored
credit_dropped(self_alws, bals, to, amount) ==
    { IF c.panic THEN Outcome(Panic, bals, self_alws)
      ELSE Outcome(Ok, bals, self_alws)
      : c \in u128_add(balance_of(bals, to), amount) }

\* variant: only a recipient that already has an entry is credited
credit_existing_only(self_alws, bals, to, amount) ==
    LET to_balance == balance_of(bals, to) IN
    { IF c.panic THEN Outcome(Panic, bals, self_alws)
      ELSE IF to \in DOMAIN bals
           THEN Outcome(Ok, insert(bals, to, c.val), self_alws)
           ELSE Outcome(Ok, bals, self_alws)
      : c \in u128_add(to_balance, amount) }

\* the credit half of transfer and transfer_from: read to's balance from
\* the already debited map, add, insert
credit(self_alws, bals, to, amount) ==
    LET to_balance == balance_of(bals, to) IN
    { IF c.panic THEN Outcome(Panic, bals, self_alws)
      ELSE Outcome(Ok, insert(bals, to, c.val), self_alws)
      : c \in u128_add(to_balance, amount) }

\* variant: to's balance is read before from is debited
debit_credit_stale(self_alws, bals, from, from_balance, to, amount) ==
    LET to_balance == balance_of(bals, to) IN
    UNION { IF d.panic THEN {Outcome(Panic, bals, self_alws)}
            ELSE { IF c.panic
                   THEN Outcome(Panic, insert(bals, from, d.val), self_alws)
                   ELSE Outcome(Ok, insert(insert(bals, from, d.val),
                                           to, c.val), self_alws)
                   : c \in u128_add(to_balance, amount) }
            : d \in u128_sub(from_balance, amount) }

\* the debit half: insert from_balance - amount, then credit
debit_credit(self_alws, bals, from, from_balance, to, amount) ==
    UNION { IF d.panic THEN {Outcome(Panic, bals, self_alws)}
            ELSE credit(self_alws, insert(bals, from, d.val), to, amount)
            : d \in u128_sub(from_balance, amount) }

\* variant: the balance check runs before the empty-address check
transfer_balance_first(self, from, to, amount) ==
    LET from_balance == balance_of(self.balances, from) IN
    IF from_balance < amount
    THEN {Outcome(InsufficientBalance, self.balances, self.allowances)}
    ELSE IF is_empty(from) \/ is_empty(to)
         THEN {Outcome(InvalidAddress, self.balances, self.allowances)}
         ELSE debit_credit(self.allowances, self.balances, from,
                           from_balance, to, amount)

\* variant: the balance check rejects an amount equal to the balance
transfer_le(self, from, to, amount) ==
    IF is_empty(from) \/ is_empty(to)
    THEN {Outcome(InvalidAddress, self.balances, self.allowances)}
    ELSE LET from_balance == balance_of(self.balances, from) IN
         IF from_balance <= amount
         THEN {Outcome(InsufficientBalance, self.balances, self.allowances)}
         ELSE debit_credit(self.allowances, self.balances, from,
                           from_balance, to, amount)

\* variant: no empty-address check
transfer_no_address_check(self, from, to, amount) ==
    LET from_balance == balance_of(self.balances, from) IN
    IF from_balance < amount
    THEN {Outcome(InsufficientBalance, self.balances, self.allowances)}
    ELSE debit_credit(self.allowances, self.balances, from,
                      from_balance, to, amount)

\* variant: no balance check
transfer_unchecked(self, from, to, amount) ==
    IF is_empty(from) \/ is_empty(to)
    THEN {Outcome(InvalidAddress, self.balances, self.allowances)}
    ELSE debit_credit(self.allowances, self.balances, from,
                      balance_of(self.balances, from), to, amount)

transfer(self, from, to, amount) ==
    IF is_empty(from) \/ is_empty(to)
    THEN {Outcome(InvalidAddress, self.balances, self.allowances)}
    ELSE LET from_balance == balance_of(self.balances, from) IN
         IF from_balance < amount
         THEN {Outcome(InsufficientBalance, self.balances, self.allowances)}
         ELSE debit_credit(self.allowances, self.balances, from,
                           from_balance, to, amount)

\* variant: approve adds amount to the previous allowance
approve_additive(self, owner, spender, amount) ==
    IF is_empty(owner) \/ is_empty(spender)
    THEN {Outcome(InvalidAddress, self.balances, self.allowances)}
    ELSE LET inner == IF owner \in DOMAIN self.allowances
                      THEN self.allowances[owner] ELSE EmptyMap
             previous == allowance(self.allowances, owner, spender)
         IN {Outcome(Ok, self.balances,
                     insert(self.allowances, owner,
                            insert(inner, spender,
                                   (previous + amount) % Modulus)))}

\* variant: approve rejects an amount above the owner's balance
approve_balance_capped(self, owner, spender, amount) ==
    IF is_empty(owner) \/ is_empty(spender)
    THEN {Outcome(InvalidAddress, self.balances, self.allowances)}
    ELSE IF balance_of(self.balances, owner) < amount
         THEN {Outcome(InsufficientBalance, self.balances, self.allowances)}
         ELSE LET inner == IF owner \in DOMAIN self.allowances
                           THEN self.allowances[owner] ELSE EmptyMap
              IN {Outcome(Ok, self.balances,
                          insert(self.allowances, owner,
                                 insert(inner, spender, amount)))}

approve(self, owner, spender, amount) ==
    IF is_empty(owner) \/ is_empty(spender)
    THEN {Outcome(InvalidAddress, self.balances, self.allowances)}
    ELSE LET inner == IF owner \in DOMAIN self.allowances
                      THEN self.allowances[owner] ELSE EmptyMap
         IN {Outcome(Ok, self.balances,
                     insert(self.allowances, owner,
                            insert(inner, spender, amount)))}

\* variant: a spend sets the remaining allowance to zero
update_allowance_reset(alws, from, spender, current_allowance, amount) ==
    IF from \notin DOMAIN alws
    THEN {[panic |-> TRUE, allowances |-> alws]}
    ELSE {[panic |-> FALSE,
           allowances |-> insert(alws, from, insert(alws[from], spender, 0))]}

\* variant: a spend leaves the allowance as it was
update_allowance_kept(alws, from, spender, current_allowance, amount) ==
    IF from \notin DOMAIN alws
    THEN {[panic |-> TRUE, allowances |-> alws]}
    ELSE {[panic |-> FALSE,
           allowances |-> insert(alws, from,
                                 insert(alws[from], spender,
                                        current_allowance))]}

\* the allowance update of transfer_from: get_mut(from).unwrap() panics when
\* from has no entry in the outer map; otherwise the inner entry of spender
\* is overwritten with current_allowance - amount
update_allowance(alws, from, spender, current_allowance, amount) ==
    IF from \notin DOMAIN alws
    THEN {[panic |-> TRUE, allowances |-> alws]}
    ELSE { IF d.panic THEN [panic |-> TRUE, allowances |-> alws]
           ELSE [panic |-> FALSE,
                 allowances |-> insert(alws, from,
                                       insert(alws[from], spender, d.val))]
           : d \in u128_sub(current_allowance, amount) }

\* variant: the allowance is updated before the balance check
transfer_from_early_update(self, spender, from, to, amount) ==
    IF is_empty(spender) \/ is_empty(from) \/ is_empty(to)
    THEN {Outcome(InvalidAddress, self.balances, self.allowances)}
    ELSE LET current_allowance == allowance(self.allowances, from, spender) IN
         IF current_allowance < amount
         THEN {Outcome(InsufficientAllowance, self.balances, self.allowances)}
         ELSE UNION { IF u.panic
                      THEN {Outcome(Panic, self.balances, u.allowances)}
                      ELSE LET from_balance ==
                                   balance_of(self.balances, from) IN
                           IF from_balance < amount
                           THEN {Outcome(InsufficientBalance, self.balances,
                                         u.allowances)}
                           ELSE debit_credit(u.allowances, self.balances,
                                             from, from_balance, to, amount)
                      : u \in update_allowance(self.allowances, from,
                                               spender, current_allowance,
                                               amount) }

\* variant: the balance check runs before the allowance check
transfer_from_balance_first(self, spender, from, to, amount) ==
    IF is_empty(spender) \/ is_empty(from) \/ is_empty(to)
    THEN {Outcome(InvalidAddress, self.balances, self.allowances)}
    ELSE LET from_balance == balance_of(self.balances, from) IN
         IF from_balance < amount
         THEN {Outcome(InsufficientBalance, self.balances, self.allowances)}
         ELSE LET current_allowance ==
                      allowance(self.allowances, from, spender) IN
              IF current_allowance < amount
              THEN {Outcome(InsufficientAllowance, self.balances,
                            self.allowances)}
              ELSE UNION { IF u.panic
                           THEN {Outcome(Panic, self.balances, u.allowances)}
                           ELSE debit_credit(u.allowances, self.balances,
                                             from, from_balance, to, amount)
                           : u \in update_allowance(self.allowances, from,
                                                    spender,
                                                    current_allowance,
                                                    amount) }

transfer_from(self, spender, from, to, amount) ==
    IF is_empty(spender) \/ is_empty(from) \/ is_empty(to)
    THEN {Outcome(InvalidAddress, self.balances, self.allowances)}
    ELSE LET current_allowance == allowance(self.allowances, from, spender) IN
         IF current_allowance < amount
         THEN {Outcome(InsufficientAllowance, self.balances, self.allowances)}
         ELSE LET from_balance == balance_of(self.balances, from) IN
              IF from_balance < amount
              THEN {Outcome(InsufficientBalance, self.balances,
                            self.allowances)}
              ELSE UNION { IF u.panic
                           THEN {Outcome(Panic, self.balances, u.allowances)}
                           ELSE debit_credit(u.allowances, self.balances,
                                             from, from_balance, to, amount)
                           : u \in update_allowance(self.allowances, from,
                                                    spender,
                                                    current_allowance,
                                                    amount) }

\* ----------------------------------------------------------------- state
\* nothing has happened yet: no recipient, no approved pair, nothing granted
\* and nothing moved
NoHistory ==
    [recipients |-> {}, approved |-> {},
     granted |-> EmptyMap, moved |-> EmptyMap]

\* variant: new credits the supply only to a non-empty owner
Init_owner_validated ==
    /\ name = "MyToken"
    /\ symbol = "MTK"
    /\ decimals = 18
    /\ initial_supply \in InitialSupplies
    /\ total_supply = initial_supply
    /\ \E owner \in Owners :
          /\ balances = IF is_empty(owner) THEN EmptyMap
                        ELSE insert(EmptyMap, owner, initial_supply)
          /\ call = [op |-> "new", spender |-> NoArg, from |-> NoArg,
                     to |-> NoArg, owner |-> owner, amount |-> initial_supply,
                     result |-> Ok]
          /\ new_owner = owner
    /\ allowances = EmptyMap
    /\ pre = [balances |-> EmptyMap, allowances |-> EmptyMap,
              total_supply |-> 0]
    /\ pc = "calls"
    /\ hist = NoHistory
    /\ trace = << >>

\* ERC20Token::new, followed by arbitrary calls
Init ==
    /\ name = "MyToken"
    /\ symbol = "MTK"
    /\ decimals = 18
    /\ initial_supply \in InitialSupplies
    /\ total_supply = initial_supply
    /\ \E owner \in Owners :
          /\ balances = insert(EmptyMap, owner, initial_supply)
          /\ call = [op |-> "new", spender |-> NoArg, from |-> NoArg,
                     to |-> NoArg, owner |-> owner, amount |-> initial_supply,
                     result |-> Ok]
          /\ new_owner = owner
    /\ allowances = EmptyMap
    /\ pre = [balances |-> EmptyMap, allowances |-> EmptyMap,
              total_supply |-> 0]
    /\ pc = "calls"
    /\ hist = NoHistory
    /\ trace = << >>

\* a panic ends the caller's use of the ledger
Running == call.result # Panic

\* variant: a successful transfer burns one unit of the supply
Apply_burning(out, c) ==
    /\ balances' = out.balances
    /\ allowances' = out.allowances
    /\ call' = [c EXCEPT !.result = out.result]
    /\ pre' = [balances |-> balances, allowances |-> allowances,
               total_supply |-> total_supply]
    /\ total_supply' = IF out.result = Ok /\ c.op = "transfer"
                          /\ total_supply > 0
                       THEN total_supply - 1 ELSE total_supply
    /\ UNCHANGED <<name, symbol, decimals, initial_supply, new_owner>>

Apply(out, c) ==
    /\ balances' = out.balances
    /\ allowances' = out.allowances
    /\ call' = [c EXCEPT !.result = out.result]
    /\ pre' = [balances |-> balances, allowances |-> allowances,
               total_supply |-> total_supply]
    /\ UNCHANGED <<name, symbol, decimals, total_supply, initial_supply,
                   new_owner>>

\* one call of each operation with the given arguments
TransferCall(from, to, amount) ==
    \E out \in transfer(Self, from, to, amount) :
       Apply(out, [op |-> "transfer", spender |-> NoArg, from |-> from,
                   to |-> to, owner |-> NoArg, amount |-> amount,
                   result |-> Ok])

ApproveCall(owner, spender, amount) ==
    \E out \in approve(Self, owner, spender, amount) :
       Apply(out, [op |-> "approve", spender |-> spender,
                   from |-> NoArg, to |-> NoArg, owner |-> owner,
                   amount |-> amount, result |-> Ok])

TransferFromCall(spender, from, to, amount) ==
    \E out \in transfer_from(Self, spender, from, to, amount) :
       Apply(out, [op |-> "transfer_from", spender |-> spender,
                   from |-> from, to |-> to, owner |-> NoArg,
                   amount |-> amount, result |-> Ok])

\* arbitrary calls
Transfer ==
    /\ Running /\ pc = "calls"
    /\ \E from \in Holders, to \in Holders, amount \in Amounts :
          TransferCall(from, to, amount)
    /\ UNCHANGED <<pc, hist, trace>>

Approve ==
    /\ Running /\ pc = "calls"
    /\ \E owner \in Owners, spender \in Spenders, amount \in Amounts :
          ApproveCall(owner, spender, amount)
    /\ UNCHANGED <<pc, hist, trace>>

TransferFrom ==
    /\ Running /\ pc = "calls"
    /\ \E spender \in Spenders, from \in Holders, to \in Holders,
          amount \in Amounts :
          TransferFromCall(spender, from, to, amount)
    /\ UNCHANGED <<pc, hist, trace>>

Next == Transfer \/ Approve \/ TransferFrom

Spec == Init /\ [][Next]_vars

\* ------------------------------------------------ calls, with a history
Lookup(m, k) == IF k \in DOMAIN m THEN m[k] ELSE 0

\* the history once call c, with its result, has been made:
\* recipients: the accounts credited by a successful transfer or
\*             transfer_from
\* approved:   the pairs <<owner, spender>> of the successful approves
\* granted:    per pair, the amount of its latest successful approve
\* moved:      per pair <<from, spender>>, the amount moved by successful
\*             transfer_from calls since that approve
Record(h, c) ==
    IF c.result # Ok THEN h
    ELSE IF c.op = "transfer"
    THEN [h EXCEPT !.recipients = @ \cup {c.to}]
    ELSE IF c.op = "approve"
    THEN [h EXCEPT !.approved = @ \cup {<<c.owner, c.spender>>},
                   !.granted = insert(@, <<c.owner, c.spender>>, c.amount),
                   !.moved = insert(@, <<c.owner, c.spender>>, 0)]
    ELSE [h EXCEPT !.recipients = @ \cup {c.to},
                   !.moved = insert(@, <<c.from, c.spender>>,
                                    Lookup(@, <<c.from, c.spender>>)
                                      + c.amount)]

\* the accounts passed in the calls whose history is kept: a call with an
\* empty address is rejected before it reads the ledger, so only approve
\* is also tried with one
NamedHolders == Holders \ {""}
NamedSpenders == Spenders \ {""}

TransferTracked ==
    /\ Running /\ pc = "calls"
    /\ \E from \in NamedHolders, to \in NamedHolders, amount \in Amounts :
          TransferCall(from, to, amount)
    /\ hist' = Record(hist, call')
    /\ UNCHANGED <<pc, trace>>

ApproveTracked ==
    /\ Running /\ pc = "calls"
    /\ \E owner \in Owners, spender \in Spenders, amount \in Amounts :
          ApproveCall(owner, spender, amount)
    /\ hist' = Record(hist, call')
    /\ UNCHANGED <<pc, trace>>

TransferFromTracked ==
    /\ Running /\ pc = "calls"
    /\ \E spender \in NamedSpenders, from \in NamedHolders,
          to \in NamedHolders, amount \in Amounts :
          TransferFromCall(spender, from, to, amount)
    /\ hist' = Record(hist, call')
    /\ UNCHANGED <<pc, trace>>

NextTracked == TransferTracked \/ ApproveTracked \/ TransferFromTracked

SpecTracked == Init /\ [][NextTracked]_vars

\* ------------------------------------------------------------ main's run
\* main: new for alice, then transfer, approve and transfer_from in turn
InitMain ==
    /\ name = "MyToken"
    /\ symbol = "MTK"
    /\ decimals = 18
    /\ initial_supply \in MainSupplies
    /\ total_supply = initial_supply
    /\ balances = insert(EmptyMap, "alice", initial_supply)
    /\ call = [op |-> "new", spender |-> NoArg, from |-> NoArg,
               to |-> NoArg, owner |-> "alice", amount |-> initial_supply,
               result |-> Ok]
    /\ new_owner = "alice"
    /\ allowances = EmptyMap
    /\ pre = [balances |-> EmptyMap, allowances |-> EmptyMap,
              total_supply |-> 0]
    /\ pc = "main_transfer"
    /\ hist = NoHistory
    /\ trace = << >>

\* match token.transfer("alice", "bob", ..): either result is printed
MainTransfer ==
    /\ pc = "main_transfer"
    /\ \E amount \in MainAmounts : TransferCall("alice", "bob", amount)
    /\ trace' = Append(trace, call')
    /\ pc' = IF call'.result = Panic THEN "main_aborted" ELSE "main_approve"
    /\ UNCHANGED hist

\* token.approve("alice", "charlie", ..).unwrap()
MainApprove ==
    /\ pc = "main_approve"
    /\ \E amount \in MainAmounts : ApproveCall("alice", "charlie", amount)
    /\ trace' = Append(trace, call')
    /\ pc' = IF call'.result = Ok THEN "main_transfer_from"
             ELSE "main_aborted"
    /\ UNCHANGED hist

\* match token.transfer_from("charlie", "alice", "dave", ..), then the
\* final balances are printed
MainTransferFrom ==
    /\ pc = "main_transfer_from"
    /\ \E amount \in MainAmounts :
          TransferFromCall("charlie", "alice", "dave", amount)
    /\ trace' = Append(trace, call')
    /\ pc' = IF call'.result = Panic THEN "main_aborted" ELSE "main_done"
    /\ UNCHANGED hist

NextMain == MainTransfer \/ MainApprove \/ MainTransferFrom

SpecMain == InitMain /\ [][NextMain]_vars

\* ------------------------------------------------- observations for claims
RECURSIVE SumOver(_, _)
SumOver(bals, keys) ==
    IF keys = {} THEN 0
    ELSE LET k == CHOOSE x \in keys : TRUE
         IN bals[k] + SumOver(bals, keys \ {k})

SumBalances(bals) == SumOver(bals, DOMAIN bals)

PreBalance(a) == balance_of(pre.balances, a)
PreAllowance(o, s) == allowance(pre.allowances, o, s)
Balance(a) == balance_of(balances, a)
Allowance(o, s) == allowance(allowances, o, s)

BalancesUnchanged == \A a \in Addresses : Balance(a) = PreBalance(a)
AllowancesUnchanged ==
    \A o \in Addresses, s \in Addresses : Allowance(o, s) = PreAllowance(o, s)

IsTransfer == call.op = "transfer"
IsApprove == call.op = "approve"
IsTransferFrom == call.op = "transfer_from"

\* C1: in every reachable state the balances of all accounts sum to
\* total_supply, and total_supply is the initial_supply given to new.
C1_Conservation ==
    /\ SumBalances(balances) = total_supply
    /\ total_supply = initial_supply

C1_Witness ==
    /\ IsTransferFrom /\ call.result = Ok /\ call.amount > 0
    /\ call.from # call.to
    /\ Cardinality({a \in DOMAIN balances : balances[a] > 0}) >= 2

\* C2: a call of transfer, approve or transfer_from that returns an error
\* leaves every balance, every allowance and total_supply as they were
\* before the call.
C2_ErrorLeavesStateUnchanged ==
    (call.op \in {"transfer", "approve", "transfer_from"}
       /\ call.result \in TokenError)
    => /\ BalancesUnchanged
       /\ AllowancesUnchanged
       /\ total_supply = pre.total_supply

C2_Witness ==
    /\ IsTransferFrom /\ call.result = InsufficientBalance
    /\ PreAllowance(call.from, call.spender) > 0
    /\ call.amount > 0

\* C3: every call of transfer, approve and transfer_from returns success
\* or one of the three error kinds; no call aborts with a panic.
C3_NoAbort ==
    call.op \in {"transfer", "approve", "transfer_from"}
    => call.result \in {Ok} \cup TokenError

\* C4: transfer_from returns success exactly when spender, from and to are
\* non-empty, the allowance of spender over from covers amount and the
\* balance of from covers amount, for every amount and every state.
C4_TransferFromSuccessIff ==
    IsTransferFrom
    => (call.result = Ok
          <=> /\ ~is_empty(call.spender)
              /\ ~is_empty(call.from)
              /\ ~is_empty(call.to)
              /\ PreAllowance(call.from, call.spender) >= call.amount
              /\ PreBalance(call.from) >= call.amount)

\* C5: a successful transfer_from with from # to takes amount off the
\* allowance of spender over from and off the balance of from, adds amount
\* to the balance of to, and changes no other balance and no other
\* allowance pair.
C5_TransferFromEffect ==
    (IsTransferFrom /\ call.result = Ok /\ call.from # call.to)
    => /\ Allowance(call.from, call.spender)
            = PreAllowance(call.from, call.spender) - call.amount
       /\ Balance(call.from) = PreBalance(call.from) - call.amount
       /\ Balance(call.to) = PreBalance(call.to) + call.amount
       /\ \A a \in Addresses \ {call.from, call.to} :
             Balance(a) = PreBalance(a)
       /\ \A o \in Addresses, s \in Addresses :
             <<o, s>> # <<call.from, call.spender>>
             => Allowance(o, s) = PreAllowance(o, s)

\* a partial spend by a spender that is neither from nor to
C5_Witness ==
    /\ IsTransferFrom /\ call.result = Ok /\ call.from # call.to
    /\ call.spender \notin {call.from, call.to}
    /\ call.amount > 0
    /\ Allowance(call.from, call.spender) > 0

\* C6: a successful transfer with from # to takes amount off the balance
\* of from and adds it to the balance of to, also when to had no entry;
\* every other balance, every allowance and total_supply are unchanged.
C6_TransferEffect ==
    (IsTransfer /\ call.result = Ok /\ call.from # call.to)
    => /\ Balance(call.from) = PreBalance(call.from) - call.amount
       /\ Balance(call.to) = PreBalance(call.to) + call.amount
       /\ \A a \in Addresses \ {call.from, call.to} :
             Balance(a) = PreBalance(a)
       /\ AllowancesUnchanged
       /\ total_supply = pre.total_supply

\* the recipient had no entry in the balances map before the call
C6_Witness ==
    /\ IsTransfer /\ call.result = Ok /\ call.from # call.to
    /\ call.amount > 0
    /\ call.to \notin DOMAIN pre.balances

\* C7: a transfer from a non-empty address to itself of an amount within
\* its balance succeeds and changes no balance; a successful transfer_from
\* with from = to changes no balance and still takes amount off the
\* allowance of spender over from.
C7_SelfTransfer ==
    /\ (IsTransfer /\ call.from = call.to /\ ~is_empty(call.from)
          /\ call.amount <= PreBalance(call.from))
       => (call.result = Ok /\ BalancesUnchanged)
    /\ (IsTransferFrom /\ call.from = call.to /\ call.result = Ok)
       => /\ BalancesUnchanged
          /\ Allowance(call.from, call.spender)
               = PreAllowance(call.from, call.spender) - call.amount

C7_Witness ==
    /\ IsTransferFrom /\ call.from = call.to /\ call.result = Ok
    /\ call.amount > 0

\* C8: in transfer_from with three non-empty addresses, an allowance below
\* amount gives InsufficientAllowance whatever the balance of from is, and
\* InsufficientBalance is returned only when the allowance covers amount
\* and the balance of from does not.
C8_AllowanceBeforeBalance ==
    (IsTransferFrom /\ ~is_empty(call.spender) /\ ~is_empty(call.from)
       /\ ~is_empty(call.to))
    => /\ PreAllowance(call.from, call.spender) < call.amount
          => call.result = InsufficientAllowance
       /\ call.result = InsufficientBalance
          => /\ PreAllowance(call.from, call.spender) >= call.amount
             /\ PreBalance(call.from) < call.amount

\* both the allowance and the balance are below amount
C8_Witness ==
    /\ IsTransferFrom /\ call.result = InsufficientAllowance
    /\ PreBalance(call.from) < call.amount
    /\ PreAllowance(call.from, call.spender) > 0

\* C9: an empty address makes transfer, approve and transfer_from fail
\* with InvalidAddress, also when the balance or allowance check would
\* fail as well.
C9_EmptyAddressFirst ==
    /\ (IsTransfer /\ (is_empty(call.from) \/ is_empty(call.to)))
       => call.result = InvalidAddress
    /\ (IsApprove /\ (is_empty(call.owner) \/ is_empty(call.spender)))
       => call.result = InvalidAddress
    /\ (IsTransferFrom /\ (is_empty(call.spender) \/ is_empty(call.from)
                             \/ is_empty(call.to)))
       => call.result = InvalidAddress

\* an empty recipient in a call whose amount exceeds the sender's balance
C9_Witness ==
    /\ IsTransfer /\ is_empty(call.to) /\ ~is_empty(call.from)
    /\ PreBalance(call.from) < call.amount
    /\ call.result = InvalidAddress

\* C10 as stated: transfer with non-empty from and to succeeds exactly
\* when the balance of from is at least amount, fails with
\* InsufficientBalance exactly when it is less, and an amount equal to the
\* balance leaves from with balance 0.
C10_Original ==
    (IsTransfer /\ ~is_empty(call.from) /\ ~is_empty(call.to))
    => /\ call.result = Ok <=> PreBalance(call.from) >= call.amount
       /\ call.result = InsufficientBalance
            <=> PreBalance(call.from) < call.amount
       /\ (call.result = Ok /\ call.amount = PreBalance(call.from))
            => Balance(call.from) = 0

\* C10 amended: as C10, where an amount equal to the balance leaves from
\* with balance 0 when from and to differ (a self-transfer of the whole
\* balance leaves it as it was).
C10_TransferBalanceCheck ==
    (IsTransfer /\ ~is_empty(call.from) /\ ~is_empty(call.to))
    => /\ call.result = Ok <=> PreBalance(call.from) >= call.amount
       /\ call.result = InsufficientBalance
            <=> PreBalance(call.from) < call.amount
       /\ (call.result = Ok /\ call.amount = PreBalance(call.from)
             /\ call.from # call.to)
            => Balance(call.from) = 0
       /\ (call.result = Ok /\ call.from = call.to)
            => Balance(call.from) = PreBalance(call.from)

\* the whole, non-zero balance is transferred to another account
C10_Witness ==
    /\ IsTransfer /\ call.result = Ok /\ call.from # call.to
    /\ call.amount = PreBalance(call.from) /\ call.amount > 0
    /\ Balance(call.from) = 0

\* C11: a successful approve sets the allowance of spender over owner to
\* amount whatever it was before, and changes no balance and no other
\* allowance pair.
C11_ApproveOverwrites ==
    (IsApprove /\ call.result = Ok)
    => /\ Allowance(call.owner, call.spender) = call.amount
       /\ BalancesUnchanged
       /\ \A o \in Addresses, s \in Addresses :
             <<o, s>> # <<call.owner, call.spender>>
             => Allowance(o, s) = PreAllowance(o, s)

\* a non-zero allowance is replaced by a smaller non-zero one
C11_Witness ==
    /\ IsApprove /\ call.result = Ok
    /\ call.amount > 0
    /\ PreAllowance(call.owner, call.spender) > call.amount

\* C12: approve with non-empty owner and spender succeeds for every amount
\* whatever the owner's balance is; a transfer_from whose amount is within
\* the allowance but above the balance of from fails with
\* InsufficientBalance and leaves the allowance as it was.
C12_BalanceCheckedAtSpendTime ==
    /\ (IsApprove /\ ~is_empty(call.owner) /\ ~is_empty(call.spender))
       => call.result = Ok
    /\ (IsTransferFrom /\ ~is_empty(call.spender) /\ ~is_empty(call.from)
          /\ ~is_empty(call.to)
          /\ PreBalance(call.from) < call.amount
          /\ call.amount <= PreAllowance(call.from, call.spender))
       => /\ call.result = InsufficientBalance
          /\ Allowance(call.from, call.spender)
               = PreAllowance(call.from, call.spender)

\* an allowance above the owner's balance is granted
C12_Witness ==
    /\ IsApprove /\ call.result = Ok
    /\ call.amount > PreBalance(call.owner)
    /\ Allowance(call.owner, call.spender) > Balance(call.owner)

\* C13: total_supply, name, symbol and decimals are in every reachable
\* state what construction made them; no call changes total_supply.
C13_MetadataFixed ==
    /\ total_supply = initial_supply
    /\ call.op # "new" => total_supply = pre.total_supply
    /\ name = "MyToken"
    /\ symbol = "MTK"
    /\ decimals = 18

\* tokens have moved by both kinds of transfer
C13_Witness ==
    /\ IsTransfer /\ call.result = Ok /\ call.amount > 0
    /\ total_supply > 0
    /\ \E o \in Addresses, s \in Addresses : Allowance(o, s) > 0

\* C15: right after new, for any owner including the empty string, the
\* owner holds initial_supply, total_supply is initial_supply, every other
\* balance is 0 and every allowance is 0.
C15_Construction ==
    call.op = "new"
    => /\ Balance(call.owner) = initial_supply
       /\ call.amount = initial_supply
       /\ total_supply = initial_supply
       /\ \A a \in Addresses \ {call.owner} : Balance(a) = 0
       /\ \A o \in Addresses, s \in Addresses : Allowance(o, s) = 0

\* the ledger is constructed with the empty string as owner
C15_Witness ==
    /\ call.op = "new" /\ is_empty(call.owner)
    /\ initial_supply > 0
    /\ Balance("") = initial_supply

\* the balances map once from is debited, as the credit reads it
DebitedBalances ==
    insert(pre.balances, call.from, PreBalance(call.from) - call.amount)

\* C18: no arithmetic of transfer and transfer_from leaves the unsigned
\* range: every balance is at most total_supply, a debit is computed only
\* from operands that passed the >= check, and a credit yields at most
\* total_supply, also when from = to; the only panic is the unwrap.
C18_NoOverflow ==
    /\ total_supply <= U128Max
    /\ \A a \in DOMAIN balances : balances[a] <= total_supply
    /\ (IsTransfer /\ call.result \notin TokenError)
       => /\ PreBalance(call.from) - call.amount >= 0
          /\ balance_of(DebitedBalances, call.to) + call.amount
               <= total_supply
    /\ (IsTransferFrom /\ call.result \notin TokenError)
       => /\ PreAllowance(call.from, call.spender) - call.amount >= 0
          /\ PreBalance(call.from) - call.amount >= 0
          /\ balance_of(DebitedBalances, call.to) + call.amount
               <= total_supply
    /\ call.result = Panic
       => (IsTransferFrom /\ call.from \notin DOMAIN pre.allowances)

\* the whole range is held by one account, which transfers to itself
C18_Witness ==
    /\ IsTransfer /\ call.result = Ok /\ call.from = call.to
    /\ call.amount > 0
    /\ PreBalance(call.from) = U128Max

\* C19: when new was given the empty string as owner and a supply above
\* 0, the empty address holds initial_supply and every other balance is 0
\* in every reachable state, every transfer and transfer_from of an amount
\* above 0 fails, and no allowance of the empty address is ever above 0.
C19_EmptyOwnerLocked ==
    (is_empty(new_owner) /\ initial_supply > 0)
    => /\ Balance("") = initial_supply
       /\ \A a \in Addresses \ {""} : Balance(a) = 0
       /\ ((IsTransfer \/ IsTransferFrom) /\ call.amount > 0)
          => call.result \in TokenError
       /\ \A s \in Addresses : Allowance("", s) = 0

\* an approved spender tries to move tokens nobody but "" holds
C19_Witness ==
    /\ is_empty(new_owner) /\ initial_supply > 0
    /\ IsTransferFrom /\ call.amount > 0
    /\ call.result = InsufficientBalance

\* C14: every address that is not the owner given to new and has never
\* been the recipient of a successful transfer or transfer_from has
\* balance 0, and every pair for which no approve has succeeded has
\* allowance 0.
C14_ZeroDefault ==
    /\ \A a \in Addresses :
          (a # new_owner /\ a \notin hist.recipients) => Balance(a) = 0
    /\ \A o \in Addresses, s \in Addresses :
          <<o, s>> \notin hist.approved => Allowance(o, s) = 0

\* an account that only sent has an entry in balances, and a pair that was
\* only spent from has an entry in allowances, beside an approved one
C14_Witness ==
    /\ \E a \in DOMAIN balances : a # new_owner /\ a \notin hist.recipients
    /\ \E o \in DOMAIN allowances :
          \E s \in DOMAIN allowances[o] : <<o, s>> \notin hist.approved
    /\ \E p \in hist.approved : Allowance(p[1], p[2]) > 0
    /\ hist.recipients # {}

Granted(o, s) == Lookup(hist.granted, <<o, s>>)
Moved(o, s) == Lookup(hist.moved, <<o, s>>)

\* C17: for every owner o and spender s, the amount moved out of o by the
\* successful transfer_from(s, o, _, _) calls since the latest successful
\* approve(o, s, n) (n = 0 when there was none) is at most n, the
\* allowance of s over o is n minus that amount, and no call other than a
\* successful approve(o, s, _) increases that allowance.
C17_SpendingCapped ==
    \A o \in Addresses, s \in Addresses :
       /\ Moved(o, s) <= Granted(o, s)
       /\ Allowance(o, s) = Granted(o, s) - Moved(o, s)
       /\ (call.op # "new"
             /\ ~(IsApprove /\ call.result = Ok /\ call.owner = o
                    /\ call.spender = s))
          => Allowance(o, s) <= PreAllowance(o, s)

\* a second spend from the same approval uses it up
C17_Witness ==
    /\ IsTransferFrom /\ call.result = Ok /\ call.amount > 0
    /\ Moved(call.from, call.spender) > call.amount
    /\ Moved(call.from, call.spender) = Granted(call.from, call.spender)
    /\ Allowance(call.from, call.spender) = 0

\* the run made the three calls of the end-to-end scenario on a supply of
\* 1_000_000
ScenarioRun ==
    /\ pc = "main_done"
    /\ initial_supply = 1000000 /\ new_owner = "alice"
    /\ trace[1].op = "transfer" /\ trace[1].from = "alice"
    /\ trace[1].to = "bob" /\ trace[1].amount = ScenarioTransfer
    /\ trace[2].op = "approve" /\ trace[2].owner = "alice"
    /\ trace[2].spender = "charlie" /\ trace[2].amount = ScenarioApprove
    /\ trace[3].op = "transfer_from" /\ trace[3].spender = "charlie"
    /\ trace[3].from = "alice" /\ trace[3].to = "dave"
    /\ trace[3].amount = ScenarioTransferFrom

\* C16: from a supply of 1_000_000 owned by alice, transfer(alice, bob,
\* 100_000), approve(alice, charlie, 50_000) and transfer_from(charlie,
\* alice, dave, 30_000) all succeed and leave alice 870_000, bob 100_000,
\* dave 30_000, charlie 0 and the allowance of charlie over alice 20_000.
C16_EndToEnd ==
    ScenarioRun
    => /\ \A i \in 1..3 : trace[i].result = Ok
       /\ Balance("alice") = 870000
       /\ Balance("bob") = 100000
       /\ Balance("dave") = 30000
       /\ Balance("charlie") = 0
       /\ Allowance("alice", "charlie") = 20000

C16_Witness ==
    /\ ScenarioRun
    /\ call.result = Ok
    /\ Balance("dave") = ScenarioTransferFrom

====
